---------------------------- MODULE Spec2Model ----------------------------
(***************************************************************************)
(* Model of the resource-usage SDK (crates/resource-usage-sdk):            *)
(*   statistics.rs  handle_transaction / handle_meta_v4 / store_transaction*)
(*   scval_tools.rs scval_as_string / scval_as_u64                         *)
(*   show.rs        calc_statistics / load_table_data / format_cell_*      *)
(*   rpc_server.rs  StellarRpcServer (simulate / send / print_table)       *)
(*                                                                         *)
(* Conventions.  Option<T> is a sequence: <<>> is None, <<x>> is Some(x).  *)
(* Result<T,E> is a record [ok, value, error].  A HashMap is a function    *)
(* whose DOMAIN is the set of keys present.  An f64 is an exact rational   *)
(* [num, den] in lowest terms: every quantity of the model is far below    *)
(* 2^53 and the two sides of every threshold comparison are computed by    *)
(* the same float operations, so the comparisons agree with the exact ones.*)
(***************************************************************************)
EXTENDS Integers, Sequences, FiniteSets, TLC

(***************************************************************************)
(* Bounds of the model                                                     *)
(***************************************************************************)
MaxTx == 2          \* transactions a session may send
MaxPrints == 2      \* print_table calls in one behaviour
MaxEvents == 2      \* diagnostic events in a metadata envelope
MaxChanges == 2     \* change records in a metadata envelope
MaxOps == 3         \* operations of a recorded transaction
MaxSamples == 3     \* samples of the function list given to the aggregator
MaxValue == 130     \* largest whole value given to the cell formatters

(***************************************************************************)
(* Option and Result                                                       *)
(***************************************************************************)
None == <<>>
Some(x) == <<x>>
IsSome(o) == o # <<>>
Unwrap(o) == o[1]
UnwrapOr(o, d) == IF o = <<>> THEN d ELSE o[1]

NoMetric ==
  [cpu_insns |-> None, mem_bytes |-> None, entry_bytes |-> None,
   entry_reads |-> None, entry_writes |-> None, read_bytes |-> None,
   write_bytes |-> None, min_txn_bytes |-> None]

Ok(v) == [ok |-> TRUE, value |-> v, error |-> "-"]
Err(e) == [ok |-> FALSE, value |-> NoMetric, error |-> e]

(***************************************************************************)
(* statistics.rs: xdr limits and encoding                                  *)
(***************************************************************************)
LIMITS_depth == 200
LIMITS_len == 2 * 1024 * 1024
LIMITS == [depth |-> LIMITS_depth, len |-> LIMITS_len]

\* WriteXdr::to_xdr under Limits: the encoded length, or an xdr error when the
\* value is deeper or longer than the limits allow.  An encodable value is
\* [len, depth].
to_xdr_len(v, limits) ==
  IF v.depth > limits.depth \/ v.len > limits.len THEN None ELSE Some(v.len)

(***************************************************************************)
(* scval_tools.rs                                                          *)
(* An ScVal is [t, s, hi, lo]: t the variant, s the text of Symbol/String, *)
(* lo the number (the low word of the 128-bit variants), hi the high word. *)
(***************************************************************************)
scval_as_string(v) ==
  IF v.t = "Symbol" \/ v.t = "String" THEN Some(v.s) ELSE None

\* a variant that takes the low word of every 128-bit value
scval_as_u64_low_word(v) ==
  CASE v.t = "U32" -> Some(v.lo)
    [] v.t = "I32" -> IF v.lo >= 0 THEN Some(v.lo) ELSE None
    [] v.t = "U64" -> Some(v.lo)
    [] v.t = "I64" -> IF v.lo >= 0 THEN Some(v.lo) ELSE None
    [] v.t = "I128" -> Some(v.lo)
    [] v.t = "U128" -> Some(v.lo)
    [] OTHER -> None

scval_as_u64(v) ==
  CASE v.t = "U32" -> Some(v.lo)
    [] v.t = "I32" -> IF v.lo >= 0 THEN Some(v.lo) ELSE None
    [] v.t = "U64" -> Some(v.lo)
    [] v.t = "I64" -> IF v.lo >= 0 THEN Some(v.lo) ELSE None
    [] v.t = "I128" -> IF v.hi = 0 THEN Some(v.lo) ELSE None
    [] v.t = "U128" -> IF v.hi = 0 THEN Some(v.lo) ELSE None
    [] OTHER -> None

(***************************************************************************)
(* statistics.rs: max_entry_value_len                                      *)
(* meta.operations is a sequence of operation metas, each a sequence of    *)
(* change records [kind, data].                                            *)
(***************************************************************************)
change_len(change, limits) ==
  IF change.kind = "Created" \/ change.kind = "Updated"
  THEN UnwrapOr(to_xdr_len(change.data, limits), 0)
  ELSE 0

RECURSIVE max_changes_len(_, _, _)
max_changes_len(changes, limits, max_len) ==
  IF changes = <<>> THEN max_len
  ELSE LET len == change_len(Head(changes), limits)
       IN max_changes_len(Tail(changes), limits,
                          IF len > max_len THEN len ELSE max_len)

\* a variant that starts every operation from zero
RECURSIVE max_ops_len_reset(_, _, _)
max_ops_len_reset(ops, limits, max_len) ==
  IF ops = <<>> THEN max_len
  ELSE max_ops_len_reset(Tail(ops), limits,
                         max_changes_len(Head(ops), limits, 0))

RECURSIVE max_ops_len(_, _, _)
max_ops_len(ops, limits, max_len) ==
  IF ops = <<>> THEN max_len
  ELSE max_ops_len(Tail(ops), limits,
                   max_changes_len(Head(ops), limits, max_len))

max_entry_value_len(meta, limits) == max_ops_len(meta.operations, limits, 0)

(***************************************************************************)
(* statistics.rs: get_core_metrics                                         *)
(* A diagnostic event is [topics, data]: a sequence of ScVal and an ScVal. *)
(***************************************************************************)
CORE_KEYS == {"cpu_insn", "mem_byte", "ledger_read_byte", "ledger_write_byte"}

\* a variant in which a later known key replaces the matched one
RECURSIVE scan_topics_last_key(_, _, _)
scan_topics_last_key(topics, is_core_metrics, matched_key) ==
  IF topics = <<>> THEN [is_core_metrics |-> is_core_metrics,
                         matched_key |-> matched_key]
  ELSE LET topic == scval_as_string(Head(topics))
       IN IF topic = None
          THEN scan_topics_last_key(Tail(topics), is_core_metrics, matched_key)
          ELSE IF Unwrap(topic) = "core_metrics"
          THEN scan_topics_last_key(Tail(topics), TRUE, matched_key)
          ELSE IF Unwrap(topic) \in CORE_KEYS
          THEN scan_topics_last_key(Tail(topics), is_core_metrics, topic)
          ELSE scan_topics_last_key(Tail(topics), is_core_metrics, matched_key)

\* the inner loop over the topics that are strings: the pair
\* (is_core_metrics, matched_key) after the last topic
RECURSIVE scan_topics(_, _, _)
scan_topics(topics, is_core_metrics, matched_key) ==
  IF topics = <<>> THEN [is_core_metrics |-> is_core_metrics,
                         matched_key |-> matched_key]
  ELSE LET topic == scval_as_string(Head(topics))
       IN IF topic = None
          THEN scan_topics(Tail(topics), is_core_metrics, matched_key)
          ELSE IF Unwrap(topic) = "core_metrics"
          THEN scan_topics(Tail(topics), TRUE, matched_key)
          ELSE IF matched_key = None /\ Unwrap(topic) \in CORE_KEYS
          THEN scan_topics(Tail(topics), is_core_metrics, topic)
          ELSE scan_topics(Tail(topics), is_core_metrics, matched_key)

\* map.insert(key, v)
MapInsert(map, k, v) ==
  [x \in DOMAIN map \cup {k} |-> IF x = k THEN v ELSE map[x]]

\* map.get(key).copied()
MapGet(map, k) == IF k \in DOMAIN map THEN Some(map[k]) ELSE None

EmptyMap == [x \in {} |-> 0]

\* one iteration of the loop over meta.diagnostic_events
core_metrics_step(map, te) ==
  LET scan == scan_topics(te.topics, FALSE, None)
      v == scval_as_u64(te.data)
  IN IF ~scan.is_core_metrics THEN map
     ELSE IF scan.matched_key = None THEN map
     ELSE IF v = None THEN map
     ELSE MapInsert(map, Unwrap(scan.matched_key), Unwrap(v))

RECURSIVE core_metrics_map(_, _)
core_metrics_map(events, map) ==
  IF events = <<>> THEN map
  ELSE core_metrics_map(Tail(events), core_metrics_step(map, Head(events)))

get_core_metrics(meta) ==
  LET map == core_metrics_map(meta.diagnostic_events, EmptyMap)
  IN [cpu_insn |-> MapGet(map, "cpu_insn"),
      mem_byte |-> MapGet(map, "mem_byte")]

(***************************************************************************)
(* statistics.rs: handle_transaction / handle_meta_v4                      *)
(* A simulation response is [transaction_data]: None, or Some of           *)
(* [read_only, read_write, disk_read_bytes, write_bytes] (the footprint     *)
(* sets are given by their sizes).  A receipt is [status, meta, envelope]: *)
(* meta is None or Some [v, operations, diagnostic_events].                *)
(***************************************************************************)
handle_meta_v4(sim_tx, tx_result, meta) ==
  IF sim_tx.transaction_data = None THEN Err("NoTransactionData")
  ELSE LET resource == Unwrap(sim_tx.transaction_data)
           min_txn_bytes == to_xdr_len(tx_result.envelope, LIMITS)
           entry_bytes == max_entry_value_len(meta, LIMITS)
           metrics == get_core_metrics(meta)
       IN IF min_txn_bytes = None THEN Err("SDKXdrError")
          ELSE Ok([cpu_insns |-> metrics.cpu_insn,
                   mem_bytes |-> metrics.mem_byte,
                   entry_bytes |-> Some(entry_bytes),
                   entry_reads |-> Some(resource.read_only),
                   entry_writes |-> Some(resource.read_write),
                   read_bytes |-> Some(resource.disk_read_bytes),
                   write_bytes |-> Some(resource.write_bytes),
                   min_txn_bytes |-> min_txn_bytes])

\* a variant that looks at the simulation before the receipt
handle_transaction_sim_first(sim_tx, tx_result) ==
  IF sim_tx.transaction_data = None THEN Err("NoTransactionData")
  ELSE IF tx_result.meta = None THEN Err("MissingMeta")
  ELSE LET meta == Unwrap(tx_result.meta)
       IN IF meta.v = 4 THEN handle_meta_v4(sim_tx, tx_result, meta)
          ELSE Err("UnsupportedMeta")

handle_transaction(sim_tx, tx_result) ==
  IF tx_result.meta = None THEN Err("MissingMeta")
  ELSE LET meta == Unwrap(tx_result.meta)
       IN IF meta.v = 4 THEN handle_meta_v4(sim_tx, tx_result, meta)
          ELSE Err("UnsupportedMeta")

(***************************************************************************)
(* statistics.rs: store_transaction                                        *)
(* A transaction is [operations]: None or Some of a sequence of operations *)
(* [body, host_function, address, contract, function_name].                *)
(***************************************************************************)
ContractIds == {1, 2}

\* stellar_strkey::Contract(..).to_string(): the canonical text of a contract id
StrKeyTable == <<"CA", "CB">>
StrKey(contract) == StrKeyTable[contract]

\* store_stats.entry(c).or_default().entry(f).or_default().push(stats)
StorePush(store_stats, c, f, stats) ==
  LET funcs == IF c \in DOMAIN store_stats THEN store_stats[c] ELSE EmptyMap
      list == IF f \in DOMAIN funcs THEN funcs[f] ELSE <<>>
  IN MapInsert(store_stats, c, MapInsert(funcs, f, Append(list, stats)))

\* a variant that records a metric in a list only once
store_operation_once(store_stats, operation, stats) ==
  IF operation.body # "InvokeHostFunction" THEN store_stats
  ELSE IF operation.host_function # "InvokeContract" THEN store_stats
  ELSE IF operation.address # "Contract" THEN store_stats
  ELSE LET c == StrKey(operation.contract)
           f == operation.function_name
       IN IF c \in DOMAIN store_stats /\ f \in DOMAIN store_stats[c]
             /\ \E i \in DOMAIN store_stats[c][f] : store_stats[c][f][i] = stats
          THEN store_stats
          ELSE StorePush(store_stats, c, f, stats)

\* one iteration of the loop over the operations
store_operation(store_stats, operation, stats) ==
  IF operation.body # "InvokeHostFunction" THEN store_stats
  ELSE IF operation.host_function # "InvokeContract" THEN store_stats
  ELSE IF operation.address # "Contract" THEN store_stats
  ELSE StorePush(store_stats, StrKey(operation.contract),
                 operation.function_name, stats)

RECURSIVE store_operations(_, _, _)
store_operations(store_stats, operations, stats) ==
  IF operations = <<>> THEN store_stats
  ELSE store_operations(store_operation(store_stats, Head(operations), stats),
                        Tail(operations), stats)

store_transaction(store_stats, transaction, stats) ==
  IF transaction.operations = None THEN store_stats
  ELSE store_operations(store_stats, Unwrap(transaction.operations), stats)

(***************************************************************************)
(* f64 values as exact rationals in lowest terms                           *)
(***************************************************************************)
RECURSIVE GCD(_, _)
GCD(a, b) == IF b = 0 THEN a ELSE GCD(b, a % b)

Rat(n, d) == LET g == GCD(n, d) IN [num |-> n \div g, den |-> d \div g]
\* (a / b) as f64
RatDiv(a, b) == Rat(a.num * b.den, a.den * b.num)
\* a * b, reduced crosswise before multiplying
RatMul(a, b) ==
  LET x == Rat(a.num, b.den)
      y == Rat(b.num, a.den)
  IN [num |-> x.num * y.num, den |-> x.den * y.den]
RatGt(a, b) == a.num * b.den > b.num * a.den
RatLe(a, b) == a.num * b.den <= b.num * a.den
FromInt(n) == [num |-> n, den |-> 1]

(***************************************************************************)
(* show.rs: calc_statistics                                                *)
(***************************************************************************)
METRIC_KEYS ==
  <<"cpu_insns", "mem_bytes", "entry_bytes", "entry_reads", "entry_writes",
    "read_bytes", "write_bytes", "min_txn_bytes">>

METRIC_KEYS_FOR_PRINT == METRIC_KEYS

get_metric_u64(m, key) ==
  CASE key = "cpu_insns" -> m.cpu_insns
    [] key = "mem_bytes" -> m.mem_bytes
    [] key = "entry_bytes" -> m.entry_bytes
    [] key = "entry_reads" -> m.entry_reads
    [] key = "entry_writes" -> m.entry_writes
    [] key = "read_bytes" -> m.read_bytes
    [] key = "write_bytes" -> m.write_bytes
    [] key = "min_txn_bytes" -> m.min_txn_bytes
    [] OTHER -> None

\* a variant that passes over the samples without a value
RECURSIVE scan_samples_skip_missing(_, _, _, _, _)
scan_samples_skip_missing(data, key, sum, max, min) ==
  IF data = <<>> THEN [sum |-> sum, max |-> max, min |-> min]
  ELSE IF get_metric_u64(Head(data), key) = None
  THEN scan_samples_skip_missing(Tail(data), key, sum, max, min)
  ELSE LET value == Unwrap(get_metric_u64(Head(data), key))
       IN scan_samples_skip_missing(Tail(data), key, sum + value,
                                    IF value > max THEN value ELSE max,
                                    IF value < min THEN value ELSE min)

\* the loop over data of one metric key: sum, max and min after the last sample
RECURSIVE scan_samples(_, _, _, _, _)
scan_samples(data, key, sum, max, min) ==
  IF data = <<>> THEN [sum |-> sum, max |-> max, min |-> min]
  ELSE LET value == UnwrapOr(get_metric_u64(Head(data), key), 0)
       IN scan_samples(Tail(data), key, sum + value,
                       IF value > max THEN value ELSE max,
                       IF value < min THEN value ELSE min)

\* a variant that asks every sample for a value
gated_keys_all(data) ==
  {METRIC_KEYS[i] : i \in {j \in DOMAIN METRIC_KEYS :
                             \A n \in DOMAIN data :
                               get_metric_u64(data[n], METRIC_KEYS[j]) # None}}

\* the keys of METRIC_KEYS that get an entry for this sample list
gated_keys(data) ==
  {METRIC_KEYS[i] : i \in {j \in DOMAIN METRIC_KEYS :
                             get_metric_u64(data[1], METRIC_KEYS[j]) # None}}

metric_statistics(data, key) ==
  LET first_val == Unwrap(get_metric_u64(data[1], key))
      s == scan_samples(data, key, 0, first_val, first_val)
  IN [avg |-> Rat(s.sum, Len(data)), max |-> s.max, min |-> s.min,
      sum |-> s.sum]

func_statistics(data) ==
  [times |-> Len(data),
   metrics |-> [key \in gated_keys(data) |-> metric_statistics(data, key)]]

calc_statistics(store) ==
  [contract_name \in DOMAIN store |->
     [func_name \in {f \in DOMAIN store[contract_name] :
                       Len(store[contract_name][f]) # 0} |->
        func_statistics(store[contract_name][func_name])]]

(***************************************************************************)
(* show.rs: limits, load_table_data, cells and print_table                 *)
(***************************************************************************)
stellar_limits_config ==
  [cpu_insns |-> 50000000, mem_bytes |-> 10000000, entry_bytes |-> 1000000,
   entry_reads |-> 10000, entry_writes |-> 10000, read_bytes |-> 2000000,
   write_bytes |-> 2000000, min_txn_bytes |-> 100000]

\* LimitsCursors { danger: 0.8, error: 1.0 }
DefaultCursors == [danger |-> Rat(8, 10), error |-> Rat(10, 10)]

\* the rows of one function: the keys of METRIC_KEYS_FOR_PRINT, in order, that
\* have a statistic, a limit and a limit other than zero
table_row_of(key, limit, stat) ==
  [key |-> key, limit |-> limit, avg |-> stat.avg, max |-> stat.max,
   min |-> stat.min, sum |-> stat.sum]

\* a variant that keeps the keys whose limit is zero
RECURSIVE table_rows_keep_zero(_, _, _)
table_rows_keep_zero(data, limits, i) ==
  IF i > Len(METRIC_KEYS_FOR_PRINT) THEN <<>>
  ELSE LET key == METRIC_KEYS_FOR_PRINT[i]
           rest == table_rows_keep_zero(data, limits, i + 1)
       IN IF key \notin DOMAIN data.metrics THEN rest
          ELSE IF key \notin DOMAIN limits THEN rest
          ELSE <<table_row_of(key, limits[key], data.metrics[key])>> \o rest

RECURSIVE table_rows(_, _, _)
table_rows(data, limits, i) ==
  IF i > Len(METRIC_KEYS_FOR_PRINT) THEN <<>>
  ELSE LET key == METRIC_KEYS_FOR_PRINT[i]
           rest == table_rows(data, limits, i + 1)
       IN IF key \notin DOMAIN data.metrics THEN rest
          ELSE IF key \notin DOMAIN limits THEN rest
          ELSE IF limits[key] = 0 THEN rest
          ELSE <<table_row_of(key, limits[key], data.metrics[key])>> \o rest

\* the (contract, function) pairs of the statistics
stat_pairs(statistics) ==
  UNION {{<<c, f>> : f \in DOMAIN statistics[c]} : c \in DOMAIN statistics}

func_table_data(func, data, limits) ==
  [func |-> func, times |-> data.times, rows |-> table_rows(data, limits, 1)]

\* load_table_data visits the two maps in an unspecified order: order is the
\* sequence of (contract, function) pairs as visited
RECURSIVE load_table_data(_, _, _)
load_table_data(statistics, limits, order) ==
  IF order = <<>> THEN <<>>
  ELSE <<func_table_data(Head(order)[2],
                         statistics[Head(order)[1]][Head(order)[2]], limits)>>
       \o load_table_data(statistics, limits, Tail(order))

\* String::cmp on the function names of the model
FUNC_NAMES == <<"increment", "swap">>
FuncRank(f) == CHOOSE i \in DOMAIN FUNC_NAMES : FUNC_NAMES[i] = f
FuncLe(a, b) == FuncRank(a) <= FuncRank(b)

Perms(S) ==
  {s \in [1..Cardinality(S) -> S] :
     \A i, j \in 1..Cardinality(S) : i # j => s[i] # s[j]}

\* funcs.sort_by(|a, b| a.func.cmp(&b.func)) is stable: the visiting orders
\* that the sort leaves as they are stand for every outcome of visit and sort
sorted_orders(statistics) ==
  {o \in Perms(stat_pairs(statistics)) :
     \A i \in 1..(Len(o) - 1) : FuncLe(o[i][2], o[i + 1][2])}

\* Cell: content and foreground colour (Red and Yellow cells are bold)
\* percent = (value / limit as f64) * 100.0; a zero limit makes it infinite
\* (or NaN for value 0, which exceeds nothing)
Infinity == [num |-> 1, den |-> 0]
NaN == [num |-> 0, den |-> 0]
percent_of(value, limit) ==
  IF limit = 0 THEN (IF value.num > 0 THEN Infinity ELSE NaN)
  ELSE RatMul(RatDiv(value, FromInt(limit)), FromInt(100))

\* a variant whose comparisons include the threshold
cell_colour_inclusive(percent, cursors) ==
  LET is_danger == ~RatGt(RatMul(cursors.danger, FromInt(100)), percent)
      is_error == ~RatGt(RatMul(cursors.error, FromInt(100)), percent)
  IN IF is_error THEN "Red" ELSE IF is_danger THEN "Yellow" ELSE "Default"

cell_colour(percent, cursors) ==
  LET is_danger == RatGt(percent, RatMul(cursors.danger, FromInt(100)))
      is_error == RatGt(percent, RatMul(cursors.error, FromInt(100)))
  IN IF is_error THEN "Red" ELSE IF is_danger THEN "Yellow" ELSE "Default"

format_cell_f64(value, limit, cursors) ==
  [content |-> value, fg |-> cell_colour(percent_of(value, limit), cursors)]

format_cell_u64(value, limit, cursors) ==
  [content |-> FromInt(value),
   fg |-> cell_colour(percent_of(FromInt(value), limit), cursors)]

plain_cell(value) == [content |-> FromInt(value), fg |-> "Default"]

\* a variant that classifies the average and colours the row with it
table_row_one_colour(row, cursors) ==
  LET avg == format_cell_f64(row.avg, row.limit, cursors)
  IN [key |-> row.key, limit |-> row.limit,
      avg |-> avg,
      max |-> [content |-> FromInt(row.max), fg |-> avg.fg],
      min |-> [content |-> FromInt(row.min), fg |-> avg.fg],
      sum |-> plain_cell(row.sum)]

table_row(row, cursors) ==
  [key |-> row.key, limit |-> row.limit,
   avg |-> format_cell_f64(row.avg, row.limit, cursors),
   max |-> format_cell_u64(row.max, row.limit, cursors),
   min |-> format_cell_u64(row.min, row.limit, cursors),
   sum |-> plain_cell(row.sum)]

RECURSIVE render_rows(_, _)
render_rows(rows, cursors) ==
  IF rows = <<>> THEN <<>>
  ELSE <<table_row(Head(rows), cursors)>> \o render_rows(Tail(rows), cursors)

RECURSIVE render_funcs(_, _)
render_funcs(funcs, cursors) ==
  IF funcs = <<>> THEN <<>>
  ELSE <<[func |-> Head(funcs).func, times |-> Head(funcs).times,
          rows |-> render_rows(Head(funcs).rows, cursors)]>>
       \o render_funcs(Tail(funcs), cursors)

\* the rows that show::print_table adds for funcs, after the title rows
render_table(contract_id, funcs, cursors) ==
  [contract |-> contract_id, funcs |-> render_funcs(funcs, cursors)]

\* show::print_table, up to the rendering: the sorted function data of the
\* table for contract_id, given the order in which load_table_data visited
\* the statistics
table_funcs(contract_id, store, order) ==
  load_table_data(calc_statistics(store), stellar_limits_config, order)

\* show::print_table: the table printed for contract_id
show_print_table(contract_id, store, order) ==
  render_table(contract_id, table_funcs(contract_id, store, order),
               DefaultCursors)

(***************************************************************************)
(* rpc_server.rs: StellarRpcServer                                         *)
(***************************************************************************)
VARIABLES
  hash,          \* self.hash: transaction hash -> HashMapValue
  transaction,   \* self.transaction: Option<Transaction>
  sim_tx_res,    \* self.sim_tx_res: Option<SimulateTransactionResponse>
  store_stats,   \* self.store_stats: ContractStore
  sent,          \* history: the transactions sent so far
  prints,        \* history: number of print_table calls
  extracted,     \* history: per hash, how often its sample was recorded
  last,          \* history: the inputs and the outcome of the last print_table
  report,        \* history: per contract id, the function data of the table
                 \* that the last print_table printed for it
  call           \* a single call of one function of the pipeline, with its result

vars == <<hash, transaction, sim_tx_res, store_stats, sent, prints, extracted,
          last, report, call>>

NoCall == [op |-> "none"]

\* ---- the transactions, simulations and receipts of a session ----
Invoke(c, f) ==
  [body |-> "InvokeHostFunction", host_function |-> "InvokeContract",
   address |-> "Contract", contract |-> c, function_name |-> f]
OtherOp(body, host_function, address) ==
  [body |-> body, host_function |-> host_function, address |-> address,
   contract |-> 1, function_name |-> "increment"]

TxShapes ==
  <<Some(<<Invoke(1, "increment")>>),
    Some(<<Invoke(1, "increment"), OtherOp("Payment", "-", "-"),
           Invoke(2, "swap")>>),
    Some(<<Invoke(2, "increment")>>)>>

\* the transaction with identity id; its hash on the network is TxHash
TxOf(id) == [id |-> id, operations |-> TxShapes[((id - 1) % Len(TxShapes)) + 1]]
TxHash(tx) == tx.id
TxIds == 1..MaxTx

SimData(ro, rw, rb, wb) ==
  [transaction_data |-> Some([read_only |-> ro, read_write |-> rw,
                              disk_read_bytes |-> rb, write_bytes |-> wb])]
SimNoData == [transaction_data |-> None]
\* what the inner simulate_transaction may answer for a transaction: no
\* transaction data, or the footprint and the byte counts of that transaction
SessionSims(tx) == {SimNoData, SimData(2, 1, 900 * tx.id, 300 * tx.id)}

Sym(s) == [t |-> "Symbol", s |-> s, hi |-> 0, lo |-> 0]
Num(t, hi, lo) == [t |-> t, s |-> "", hi |-> hi, lo |-> lo]
Xdr(len, depth) == [len |-> len, depth |-> depth]
Event(topics, data) == [topics |-> topics, data |-> data]
Change(kind, data) == [kind |-> kind, data |-> data]
MetaV(v, operations, events) ==
  [v |-> v, operations |-> operations, diagnostic_events |-> events]
Receipt(status, meta, envelope) ==
  [status |-> status, meta |-> meta, envelope |-> envelope]

CpuEvent(n) == Event(<<Sym("core_metrics"), Sym("cpu_insn")>>, Num("U64", 0, n))

\* what wait_transaction may return for one hash: Err, or Ok of a receipt
WaitErr == [ok |-> FALSE, receipt |-> Receipt("NotFound", None, Xdr(0, 0))]
WaitOk(r) == [ok |-> TRUE, receipt |-> r]
SessionWaits ==
  {WaitErr,
   WaitOk(Receipt("Failed", None, Xdr(120, 3))),
   WaitOk(Receipt("Success", Some(MetaV(3, <<>>, <<>>)), Xdr(120, 3))),
   WaitOk(Receipt("Success",
                  Some(MetaV(4, <<<<Change("Created", Xdr(64, 2))>>>>,
                             <<CpuEvent(45000000)>>)), Xdr(120, 3)))}

\* history of one print_table call: its result, the hashes whose wait gave a
\* successful receipt from which a metric can be extracted, the hashes whose
\* extraction failed, the hashes whose wait failed or gave a receipt without
\* success, the hashes whose sample was recorded, the order in which the
\* loop visited the hashes, the order in which the successful waits
\* completed, the metric extracted for each hash of good, and the store as
\* the loop left it
NoRun ==
  [result |-> "none", good |-> {}, bad |-> {}, failed |-> {}, recorded |-> {},
   order |-> <<>>, completion |-> <<>>, samples |-> EmptyMap,
   store |-> EmptyMap]

Init ==
  /\ hash = EmptyMap
  /\ transaction = None
  /\ sim_tx_res = None
  /\ store_stats = EmptyMap
  /\ sent = {}
  /\ prints = 0
  /\ extracted = [h \in {} |-> 0]
  /\ last = NoRun
  /\ report = EmptyMap
  /\ call = NoCall

\* simulate_transaction (and prepare_transaction, which calls it): when the
\* inner simulation fails the `?` returns before any field is assigned
SimulateTransaction ==
  \E id \in TxIds : \E sim \in SessionSims(TxOf(id)) :
    /\ transaction' = Some(TxOf(id))
    /\ sim_tx_res' = Some(sim)
    /\ UNCHANGED <<hash, store_stats, sent, prints, extracted, last, report, call>>

\* send_transaction(tx): when the inner send fails the `?` returns before any
\* field is assigned.  Each transaction is sent once (the network gives a
\* transaction one hash).
SendTransaction ==
  \E id \in TxIds \ sent :
    LET tx == TxOf(id)
    IN /\ hash' = IF sim_tx_res # None /\ transaction # None
                  THEN MapInsert(hash, TxHash(tx),
                                 [transaction |-> Unwrap(transaction),
                                  sim_tx_res |-> Unwrap(sim_tx_res)])
                  ELSE hash
       /\ transaction' = None
       /\ sim_tx_res' = None
       /\ sent' = sent \cup {id}
       /\ UNCHANGED <<store_stats, prints, extracted, last, report, call>>

\* self.hash.clear()
hash_clear(h) == EmptyMap

\* a variant that leaves the store as it is
store_clear_keep(store) == store

\* self.store_stats.clear()
store_clear(store) == EmptyMap

\* a variant that leaves the loop at the first wait without a successful
\* receipt
RECURSIVE process_results_stop(_, _, _, _, _, _)
process_results_stop(pending, order, waits, i, store, recorded) ==
  IF i > Len(order)
  THEN [store |-> store, recorded |-> recorded, error |-> None]
  ELSE LET h == order[i]
           tx_result == waits[h]
       IN IF ~tx_result.ok
          THEN [store |-> store, recorded |-> recorded, error |-> None]
          ELSE IF tx_result.receipt.status # "Success"
          THEN [store |-> store, recorded |-> recorded, error |-> None]
          ELSE IF h \notin DOMAIN pending
          THEN process_results_stop(pending, order, waits, i + 1, store,
                                    recorded)
          ELSE LET map_value == pending[h]
                   stats == handle_transaction(map_value.sim_tx_res,
                                               tx_result.receipt)
               IN IF ~stats.ok
                  THEN [store |-> store, recorded |-> recorded,
                        error |-> Some(stats.error)]
                  ELSE process_results_stop(pending, order, waits, i + 1,
                         store_transaction(store, map_value.transaction,
                                           stats.value),
                         Append(recorded, h))

\* the loop of print_table over results, from position i of order: the store,
\* the hashes recorded, and the error that ended the loop with `?`, if any
RECURSIVE process_results(_, _, _, _, _, _)
process_results(pending, order, waits, i, store, recorded) ==
  IF i > Len(order)
  THEN [store |-> store, recorded |-> recorded, error |-> None]
  ELSE LET h == order[i]
           tx_result == waits[h]
       IN IF ~tx_result.ok
          THEN process_results(pending, order, waits, i + 1, store, recorded)
          ELSE IF tx_result.receipt.status # "Success"
          THEN process_results(pending, order, waits, i + 1, store, recorded)
          ELSE IF h \notin DOMAIN pending
          THEN process_results(pending, order, waits, i + 1, store, recorded)
          ELSE LET map_value == pending[h]
                   stats == handle_transaction(map_value.sim_tx_res,
                                               tx_result.receipt)
               IN IF ~stats.ok
                  THEN [store |-> store, recorded |-> recorded,
                        error |-> Some(stats.error)]
                  ELSE process_results(pending, order, waits, i + 1,
                         store_transaction(store, map_value.transaction,
                                           stats.value),
                         Append(recorded, h))

\* the wait for h gave a receipt with status Success
Completed(waits, h) == waits[h].ok /\ waits[h].receipt.status = "Success"

\* ... and a metric can be extracted from it
Extractable(pending, waits, h) ==
  /\ Completed(waits, h)
  /\ handle_transaction(pending[h].sim_tx_res, waits[h].receipt).ok

RECURSIVE CountIn(_, _)
CountIn(seq, x) ==
  IF seq = <<>> THEN 0
  ELSE (IF Head(seq) = x THEN 1 ELSE 0) + CountIn(Tail(seq), x)

\* print_table: hashes are visited in the key order of the map, which is
\* unspecified; join_all polls the waits together, they complete in any
\* order, and it gives one wait result per hash in the order of hashes
PrintTable ==
  /\ prints < MaxPrints
  /\ \E order \in Perms(DOMAIN hash), waits \in [DOMAIN hash -> SessionWaits] :
     \E completion \in Perms({h \in DOMAIN hash : Completed(waits, h)}) :
       LET run == process_results(hash, order, waits, 1, store_stats, <<>>)
       IN /\ prints' = prints + 1
          /\ extracted' = [h \in DOMAIN extracted \cup DOMAIN hash |->
                             (IF h \in DOMAIN extracted THEN extracted[h] ELSE 0)
                             + CountIn(run.recorded, h)]
          /\ last' = [result |-> IF run.error = None THEN "Ok"
                                 ELSE Unwrap(run.error),
                      good |-> {h \in DOMAIN hash : Extractable(hash, waits, h)},
                      bad |-> {h \in DOMAIN hash : Completed(waits, h)
                                 /\ ~Extractable(hash, waits, h)},
                      failed |-> {h \in DOMAIN hash : ~Completed(waits, h)},
                      recorded |-> {run.recorded[i] : i \in DOMAIN run.recorded},
                      order |-> order,
                      completion |-> completion,
                      samples |-> [h \in {x \in DOMAIN hash :
                                           Extractable(hash, waits, x)} |->
                                     handle_transaction(hash[h].sim_tx_res,
                                                        waits[h].receipt).value],
                      store |-> run.store]
          /\ IF run.error # None
             THEN /\ store_stats' = run.store
                  /\ UNCHANGED <<hash, report>>
             ELSE /\ \E orders \in [DOMAIN run.store ->
                                      sorted_orders(calc_statistics(run.store))] :
                        report' = [c \in DOMAIN run.store |->
                                     table_funcs(c, run.store, orders[c])]
                  /\ hash' = hash_clear(hash)
                  /\ store_stats' = store_clear(run.store)
          /\ UNCHANGED <<transaction, sim_tx_res, sent, call>>

Next == SimulateTransaction \/ SendTransaction \/ PrintTable

Spec == Init /\ [][Next]_vars

(***************************************************************************)
(* Single calls of the functions of the pipeline.  In these specifications *)
(* the server stays as constructed and call holds the arguments of one     *)
(* call, drawn from bounded sets, and then its result.                     *)
(***************************************************************************)
ServerIdle ==
  /\ hash = EmptyMap
  /\ transaction = None
  /\ sim_tx_res = None
  /\ store_stats = EmptyMap
  /\ sent = {}
  /\ prints = 0
  /\ extracted = [h \in {} |-> 0]
  /\ last = NoRun
  /\ report = EmptyMap

ServerUnchanged ==
  UNCHANGED <<hash, transaction, sim_tx_res, store_stats, sent, prints,
              extracted, last, report>>

\* sequences over S of length at most n
SeqsUpTo(S, n) == UNION {[1..k -> S] : k \in 0..n}

\* ---- handle_transaction(sim_tx, tx_result) ----
ExtractSims ==
  {SimNoData} \cup {SimData(ro, rw, 900, 300) : ro \in {0, 2}, rw \in {0, 1}}

ExtractChanges ==
  {Change("Created", Xdr(64, 2)), Change("Updated", Xdr(128, 2)),
   Change("Removed", Xdr(32, 2)), Change("Created", Xdr(LIMITS_len + 1, 2))}

ExtractEvents ==
  {CpuEvent(5),
   Event(<<Sym("core_metrics"), Sym("mem_byte")>>, Num("U32", 0, 7)),
   Event(<<Sym("cpu_insn")>>, Num("U64", 0, 9)),
   Event(<<Sym("core_metrics"), Sym("cpu_insn")>>, Num("U128", 1, 3))}

ExtractMetas ==
  {None, Some(MetaV(3, <<>>, <<CpuEvent(5)>>))}
  \cup {Some(MetaV(4, ops, evs)) :
          ops \in {<<>>} \cup {<<cs>> : cs \in SeqsUpTo(ExtractChanges, MaxChanges)},
          evs \in SeqsUpTo(ExtractEvents, MaxEvents)}

ExtractEnvelopes == {Xdr(120, 3), Xdr(LIMITS_len + 1, 3), Xdr(120, LIMITS_depth + 1)}

ExtractReceipts ==
  {Receipt(st, meta, env) :
     st \in {"Success"}, meta \in ExtractMetas, env \in ExtractEnvelopes}

InitExtract ==
  /\ ServerIdle
  /\ \E sim \in ExtractSims, rc \in ExtractReceipts :
       call = [op |-> "handle_transaction", done |-> FALSE, sim_tx |-> sim,
               tx_result |-> rc, result |-> Err("-")]

Extract ==
  /\ call.op = "handle_transaction" /\ ~call.done
  /\ call' = [call EXCEPT !.done = TRUE,
                          !.result = handle_transaction(call.sim_tx, call.tx_result)]
  /\ ServerUnchanged

NextExtract == Extract

SpecExtract == InitExtract /\ [][NextExtract]_vars

Extracted == call.op = "handle_transaction" /\ call.done

\* ---- store_transaction(store_stats, transaction, stats) ----
Sample(cpu, txn) == [NoMetric EXCEPT !.cpu_insns = cpu, !.min_txn_bytes = txn]

RecordOps ==
  {Invoke(1, "increment"), Invoke(2, "swap"), OtherOp("Payment", "-", "-"),
   OtherOp("InvokeHostFunction", "CreateContract", "-"),
   OtherOp("InvokeHostFunction", "InvokeContract", "Account")}

RecordTxs ==
  {[id |-> 0, operations |-> None]}
  \cup {[id |-> 0, operations |-> Some(ops)] : ops \in SeqsUpTo(RecordOps, MaxOps)}

RecordMetrics == {Sample(Some(10), Some(120)), Sample(None, Some(96))}

RecordStores ==
  {EmptyMap,
   StorePush(EmptyMap, "CA", "increment", Sample(Some(30), Some(120))),
   StorePush(StorePush(StorePush(EmptyMap, "CB", "swap", Sample(None, Some(96))),
                       "CB", "swap", Sample(Some(10), Some(120))),
             "CA", "swap", Sample(Some(10), Some(120)))}

InitRecord ==
  /\ ServerIdle
  /\ \E st \in RecordStores, tx \in RecordTxs, m \in RecordMetrics :
       call = [op |-> "store_transaction", done |-> FALSE, store |-> st,
               transaction |-> tx, stats |-> m, result |-> EmptyMap]

Record ==
  /\ call.op = "store_transaction" /\ ~call.done
  /\ call' = [call EXCEPT !.done = TRUE,
                          !.result = store_transaction(call.store,
                                                       call.transaction,
                                                       call.stats)]
  /\ ServerUnchanged

NextRecord == Record

SpecRecord == InitRecord /\ [][NextRecord]_vars

Recorded == call.op = "store_transaction" /\ call.done

\* ---- calc_statistics(store) ----
AggSamples ==
  {Sample(cpu, txn) : cpu \in {None, Some(10), Some(20), Some(30), Some(50)},
                      txn \in {None, Some(0)}}

NonEmptySeqsUpTo(S, n) == UNION {[1..k -> S] : k \in 1..n}

\* the store with data as the list of one function, next to another contract
AggStore(data) ==
  StorePush([CA |-> [increment |-> data]], "CB", "swap",
            Sample(Some(50), None))

InitAggregate ==
  /\ ServerIdle
  /\ \E data \in NonEmptySeqsUpTo(AggSamples, MaxSamples) :
       call = [op |-> "calc_statistics", done |-> FALSE, data |-> data,
               result |-> EmptyMap]

Aggregate ==
  /\ call.op = "calc_statistics" /\ ~call.done
  /\ call' = [call EXCEPT !.done = TRUE,
                          !.result = calc_statistics(AggStore(call.data))]
  /\ ServerUnchanged

NextAggregate == Aggregate

SpecAggregate == InitAggregate /\ [][NextAggregate]_vars

Aggregated == call.op = "calc_statistics" /\ call.done

\* ---- two completed calls recorded in either order, then aggregated ----
CommuteSims == {SimData(2, 1, 900, 300), SimData(0, 0, 100, 50)}

CommuteMetas ==
  {MetaV(4, <<>>, <<>>),
   MetaV(4, <<>>, <<CpuEvent(10)>>),
   MetaV(4, <<<<Change("Created", Xdr(64, 2))>>>>, <<CpuEvent(50)>>),
   MetaV(4, <<>>, <<Event(<<Sym("core_metrics"), Sym("mem_byte")>>,
                          Num("U32", 0, 7))>>)}

\* a completed call: the transaction, its simulation and its receipt
CommuteCalls ==
  {[transaction |-> TxOf(id), sim_tx_res |-> sim,
    tx_result |-> Receipt("Success", Some(meta), Xdr(120, 3))] :
     id \in 1..Len(TxShapes), sim \in CommuteSims, meta \in CommuteMetas}

\* the statistics after the completed calls of cs were extracted and
\* recorded, in the order of cs, into an empty store
RECURSIVE record_all(_, _)
record_all(store, cs) ==
  IF cs = <<>> THEN store
  ELSE record_all(
         store_transaction(store, Head(cs).transaction,
                           handle_transaction(Head(cs).sim_tx_res,
                                              Head(cs).tx_result).value),
         Tail(cs))

InitCommute ==
  /\ ServerIdle
  /\ \E a \in CommuteCalls, b \in CommuteCalls :
       call = [op |-> "commute", done |-> FALSE, a |-> a, b |-> b,
               result_ab |-> EmptyMap, result_ba |-> EmptyMap]

Commute ==
  /\ call.op = "commute" /\ ~call.done
  /\ call' = [call EXCEPT
                !.done = TRUE,
                !.result_ab = calc_statistics(record_all(EmptyMap, <<call.a, call.b>>)),
                !.result_ba = calc_statistics(record_all(EmptyMap, <<call.b, call.a>>))]
  /\ ServerUnchanged

NextCommute == Commute

SpecCommute == InitCommute /\ [][NextCommute]_vars

\* ---- format_cell_f64 / format_cell_u64 (value, limit, cursors) ----
ClassifyLimits == {100, 50}
ClassifyCursors == {DefaultCursors, [danger |-> Rat(1, 2), error |-> Rat(9, 10)]}
ClassifyU64 == 0..MaxValue
\* the whole numbers up to MaxValue and the values a hundredth off them
ClassifyF64 == {Rat(100 * v + e, 100) : v \in 1..MaxValue, e \in {-1, 0, 1}}

InitClassify ==
  /\ ServerIdle
  /\ \E limit \in ClassifyLimits, cursors \in ClassifyCursors :
       \/ \E v \in ClassifyF64 :
            call = [op |-> "format_cell_f64", done |-> FALSE, value |-> v,
                    limit |-> limit, cursors |-> cursors,
                    result |-> [content |-> v, fg |-> "-"]]
       \/ \E v \in ClassifyU64 :
            call = [op |-> "format_cell_u64", done |-> FALSE, value |-> FromInt(v),
                    limit |-> limit, cursors |-> cursors,
                    result |-> [content |-> FromInt(v), fg |-> "-"]]

FormatF64 ==
  /\ call.op = "format_cell_f64" /\ ~call.done
  /\ call' = [call EXCEPT !.done = TRUE,
                          !.result = format_cell_f64(call.value, call.limit,
                                                     call.cursors)]
  /\ ServerUnchanged

FormatU64 ==
  /\ call.op = "format_cell_u64" /\ ~call.done
  /\ call' = [call EXCEPT !.done = TRUE,
                          !.result = format_cell_u64(call.value.num, call.limit,
                                                     call.cursors)]
  /\ ServerUnchanged

NextClassify == FormatF64 \/ FormatU64

SpecClassify == InitClassify /\ [][NextClassify]_vars

Classified == call.op \in {"format_cell_f64", "format_cell_u64"} /\ call.done

\* ---- load_table_data(statistics, limits) ----
LoadSamples ==
  {Sample(cpu, txn) : cpu \in {None, Some(10), Some(60)}, txn \in {None, Some(0)}}

\* limit tables: the configured one with the limits of two keys set to zero
\* or not, with and without an entry for min_txn_bytes
LoadLimits ==
  {[k \in ks |-> IF k = "cpu_insns" THEN cpu
                 ELSE IF k = "entry_bytes" THEN eb
                 ELSE stellar_limits_config[k]] :
     ks \in {DOMAIN stellar_limits_config,
             DOMAIN stellar_limits_config \ {"min_txn_bytes"}},
     cpu \in {0, 50}, eb \in {0, 1000000}}

InitLoad ==
  /\ ServerIdle
  /\ \E data \in NonEmptySeqsUpTo(LoadSamples, MaxSamples), limits \in LoadLimits :
       call = [op |-> "load_table_data", done |-> FALSE,
               statistics |-> calc_statistics(AggStore(data)),
               limits |-> limits, order |-> <<>>, result |-> <<>>]

Load ==
  /\ call.op = "load_table_data" /\ ~call.done
  /\ \E order \in Perms(stat_pairs(call.statistics)) :
       call' = [call EXCEPT !.done = TRUE,
                            !.order = order,
                            !.result = load_table_data(call.statistics,
                                                       call.limits, order)]
  /\ ServerUnchanged

NextLoad == Load

SpecLoad == InitLoad /\ [][NextLoad]_vars

Loaded == call.op = "load_table_data" /\ call.done

\* ---- print_table: the tables printed for the contracts of a store ----
ReportSample(reads) ==
  [NoMetric EXCEPT !.entry_reads = reads, !.min_txn_bytes = Some(120)]

ReportSamples ==
  {ReportSample(reads) : reads \in {None, Some(7000), Some(9000), Some(12000)}}

\* stores with one list, with lists under two contracts, and with two lists
\* under one contract
ReportStores ==
  UNION {{[CA |-> [increment |-> data]],
          StorePush([CA |-> [increment |-> data]], "CB", "swap",
                    ReportSample(Some(9000))),
          StorePush([CA |-> [increment |-> data]], "CA", "swap",
                    ReportSample(Some(9000)))} :
           data \in NonEmptySeqsUpTo(ReportSamples, MaxSamples)}

InitReport ==
  /\ ServerIdle
  /\ \E store \in ReportStores :
       call = [op |-> "print_table", done |-> FALSE, store |-> store,
               result |-> EmptyMap]

\* the loop of print_table over the contract ids of the store
Report ==
  /\ call.op = "print_table" /\ ~call.done
  /\ \E orders \in [DOMAIN call.store ->
                      sorted_orders(calc_statistics(call.store))] :
       call' = [call EXCEPT
                  !.done = TRUE,
                  !.result = [c \in DOMAIN call.store |->
                                show_print_table(c, call.store, orders[c])]]
  /\ ServerUnchanged

NextReport == Report

SpecReport == InitReport /\ [][NextReport]_vars

Reported == call.op = "print_table" /\ call.done

\* ---- handle_meta_v4(sim_tx, tx_result, meta) ----
MetaChanges ==
  {Change("Created", Xdr(64, 2)), Change("Updated", Xdr(128, 2)),
   Change("Removed", Xdr(512, 2)), Change("State", Xdr(256, 2)),
   Change("Created", Xdr(LIMITS_len + 1, 2)),
   Change("Updated", Xdr(1024, LIMITS_depth + 1))}

\* topics of a diagnostic event: the tag before and after the key, a second
\* known key after the first, no tag, no key, and topics that are not
\* strings or not known
MetaTopics ==
  {<<Sym("core_metrics"), Sym("cpu_insn")>>,
   <<Sym("cpu_insn"), Sym("core_metrics")>>,
   <<Sym("core_metrics"), Sym("mem_byte")>>,
   <<Sym("core_metrics"), Sym("ledger_read_byte"), Sym("cpu_insn")>>,
   <<Num("U32", 0, 1), Sym("host"), Sym("core_metrics"),
     [t |-> "String", s |-> "cpu_insn", hi |-> 0, lo |-> 0]>>,
   <<Sym("cpu_insn")>>,
   <<Sym("core_metrics")>>}

MetaPayloads ==
  {Num("U64", 0, 5), Num("U32", 0, 9), Num("U128", 0, 7), Num("I128", 1, 3),
   Num("I64", 0, -1)}

MetaEvents == {Event(topics, data) : topics \in MetaTopics, data \in MetaPayloads}

MetaCall(meta) ==
  [op |-> "handle_meta_v4", done |-> FALSE,
   sim_tx |-> SimData(2, 1, 900, 300),
   tx_result |-> Receipt("Success", Some(meta), Xdr(120, 3)),
   meta |-> meta, result |-> Err("-")]

\* metadata with change records in up to two operations, or metadata with
\* diagnostic events
InitMetaV4 ==
  /\ ServerIdle
  /\ \/ \E k \in 0..2 :
          \E ops \in [1..k -> SeqsUpTo(MetaChanges, MaxChanges)] :
            call = MetaCall(MetaV(4, ops, <<>>))
     \/ \E k \in 1..MaxEvents :
          \E evs \in [1..k -> MetaEvents] :
            call = MetaCall(MetaV(4, <<>>, evs))

HandleMetaV4 ==
  /\ call.op = "handle_meta_v4" /\ ~call.done
  /\ call' = [call EXCEPT !.done = TRUE,
                          !.result = handle_meta_v4(call.sim_tx, call.tx_result,
                                                    call.meta)]
  /\ ServerUnchanged

NextMetaV4 == HandleMetaV4

SpecMetaV4 == InitMetaV4 /\ [][NextMetaV4]_vars

HandledMetaV4 == call.op = "handle_meta_v4" /\ call.done

(***************************************************************************)
(* Properties                                                              *)
(***************************************************************************)
IsPrefix(a, b) == Len(a) <= Len(b) /\ \A i \in DOMAIN a : a[i] = b[i]

\* every list of old is still in new, with its elements in place
StoreExtends(old, new) ==
  \A c \in DOMAIN old :
    /\ c \in DOMAIN new
    /\ \A f \in DOMAIN old[c] :
         f \in DOMAIN new[c] /\ IsPrefix(old[c][f], new[c][f])

\* C1: in a print_table in which the extraction of some completed call
\* fails, every other call with a successful, extractable receipt is still
\* recorded and the report is still emitted.
C1_OnlyFailedCallExcluded ==
  last.bad # {} =>
    \A h \in last.good : h \in last.recorded /\ last.result = "Ok"

\* C2: the sample of a sent transaction is extracted and recorded at most
\* once over all print_table calls.
C2_RecordedAtMostOnce == \A h \in DOMAIN extracted : extracted[h] <= 1

\* a step in which print_table emits its report
EmitsReport == prints' = prints + 1 /\ last'.result = "Ok"

\* C3: a step that does not emit a report keeps every element of every
\* sample list in place; a step that emits one empties the whole store and
\* the pending map together.
C3_StoreGrowsUntilReport ==
  [][IF EmitsReport
     THEN store_stats' = EmptyMap /\ hash' = EmptyMap
     ELSE StoreExtends(store_stats, store_stats')]_vars

\* a report with rows was emitted and left the store and the pending map empty
C3_Witness ==
  /\ last.result = "Ok" /\ last.recorded # {} /\ report # EmptyMap
  /\ store_stats = EmptyMap /\ hash = EmptyMap

\* C4: handle_transaction returns MissingMeta without metadata,
\* UnsupportedMeta for metadata of a version other than 4, whatever the
\* simulation holds, and NoTransactionData for version 4 with a simulation
\* without transaction data; none of these results carries a metric.
C4_ExtractErrors ==
  Extracted =>
    LET sim == call.sim_tx
        rc == call.tx_result
    IN /\ rc.meta = None => call.result = Err("MissingMeta")
       /\ (rc.meta # None /\ Unwrap(rc.meta).v # 4)
            => call.result = Err("UnsupportedMeta")
       /\ (rc.meta # None /\ Unwrap(rc.meta).v = 4
           /\ sim.transaction_data = None)
            => call.result = Err("NoTransactionData")

\* a receipt of another version with a simulation without data: the receipt
\* decides
C4_Witness ==
  /\ Extracted
  /\ call.tx_result.meta # None /\ Unwrap(call.tx_result.meta).v = 3
  /\ call.sim_tx.transaction_data = None
  /\ call.result.error = "UnsupportedMeta"

\* the metadata has a diagnostic event that designates key and carries a
\* value that decodes
HasCoreMetric(meta, key) ==
  \E i \in DOMAIN meta.diagnostic_events :
    LET te == meta.diagnostic_events[i]
        scan == scan_topics(te.topics, FALSE, None)
    IN scan.is_core_metrics /\ scan.matched_key = Some(key)
       /\ scval_as_u64(te.data) # None

HasChangeRecord(meta) ==
  \E i \in DOMAIN meta.operations : meta.operations[i] # <<>>

\* C5: every field of an extracted metric is populated if and only if its
\* source data is present: the two cost counters with their diagnostic
\* event, entry_bytes with a change record, the footprint and byte fields
\* with the simulation data, min_txn_bytes with the encoded envelope.
C5_FieldsIffSource ==
  (Extracted /\ call.result.ok) =>
    LET m == call.result.value
        meta == Unwrap(call.tx_result.meta)
        has_sim == call.sim_tx.transaction_data # None
    IN /\ IsSome(m.cpu_insns) <=> HasCoreMetric(meta, "cpu_insn")
       /\ IsSome(m.mem_bytes) <=> HasCoreMetric(meta, "mem_byte")
       /\ IsSome(m.entry_bytes) <=> HasChangeRecord(meta)
       /\ IsSome(m.entry_reads) <=> has_sim
       /\ IsSome(m.entry_writes) <=> has_sim
       /\ IsSome(m.read_bytes) <=> has_sim
       /\ IsSome(m.write_bytes) <=> has_sim
       /\ IsSome(m.min_txn_bytes)
            <=> (to_xdr_len(call.tx_result.envelope, LIMITS) # None)

\* an operation that is a direct contract-function call on a contract address
DirectCall(operation) ==
  /\ operation.body = "InvokeHostFunction"
  /\ operation.host_function = "InvokeContract"
  /\ operation.address = "Contract"

\* the number of operations of transaction that call function f of contract c
CallsOf(tx, c, f) ==
  IF tx.operations = None THEN 0
  ELSE LET ops == Unwrap(tx.operations)
       IN Cardinality({i \in DOMAIN ops :
                         /\ DirectCall(ops[i])
                         /\ StrKey(ops[i].contract) = c
                         /\ ops[i].function_name = f})

HasList(store, c, f) == c \in DOMAIN store /\ f \in DOMAIN store[c]
ListOf(store, c, f) == IF HasList(store, c, f) THEN store[c][f] ELSE <<>>
Repeat(x, n) == [i \in 1..n |-> x]
ContractKeys == {StrKey(c) : c \in ContractIds}
FuncNameSet == {FUNC_NAMES[i] : i \in DOMAIN FUNC_NAMES}

\* C6: store_transaction appends the metric to store[c][f] once for every
\* operation that is a direct call of f on contract c, creating the entries
\* that are missing, and changes nothing else: every list is its old
\* content followed by one copy of the metric per such operation.
C6_RecordAppendsPerCall ==
  Recorded =>
    /\ \A c \in ContractKeys, f \in FuncNameSet :
         /\ ListOf(call.result, c, f)
              = ListOf(call.store, c, f)
                \o Repeat(call.stats, CallsOf(call.transaction, c, f))
         /\ HasList(call.result, c, f)
              <=> (HasList(call.store, c, f)
                   \/ CallsOf(call.transaction, c, f) > 0)
    /\ DOMAIN call.result \subseteq ContractKeys
    /\ \A c \in DOMAIN call.result : DOMAIN call.result[c] \subseteq FuncNameSet
    /\ \A c \in DOMAIN call.result :
         c \in DOMAIN call.store
         \/ \E f \in FuncNameSet : CallsOf(call.transaction, c, f) > 0

\* two batched calls of the same function next to another kind of operation,
\* recorded into a list that already has a sample
C6_Witness ==
  /\ Recorded
  /\ CallsOf(call.transaction, "CA", "increment") = 2
  /\ Len(Unwrap(call.transaction.operations)) = 3
  /\ Len(ListOf(call.store, "CA", "increment")) = 1
  /\ Len(ListOf(call.result, "CA", "increment")) = 3

MetricKeySet == {METRIC_KEYS[i] : i \in DOMAIN METRIC_KEYS}

\* the statistics of the function whose list is the data of the call
AggStats == call.result["CA"]["increment"]

\* C7: a metric key has an entry in the statistics of a function if and
\* only if the first sample of its list has a value for the key, whatever
\* the later samples hold.
C7_FirstSampleGate ==
  Aggregated =>
    \A key \in MetricKeySet :
      key \in DOMAIN AggStats.metrics <=> call.data[1][key] # None

\* the samples [{cpu: None}, {cpu: 50}] give no cpu_insns entry
C7_Witness ==
  /\ Aggregated
  /\ Len(call.data) = 2
  /\ call.data[1].cpu_insns = None /\ call.data[2].cpu_insns = Some(50)
  /\ "cpu_insns" \notin DOMAIN AggStats.metrics

\* the values of key over data, a missing value counted as 0
ZeroFilled(data, key) ==
  [i \in DOMAIN data |-> IF data[i][key] = None THEN 0 ELSE data[i][key][1]]

RECURSIVE SumSeq(_)
SumSeq(s) == IF s = <<>> THEN 0 ELSE Head(s) + SumSeq(Tail(s))

\* C8: for a key present in the first of n samples, times is n, sum is the
\* sum of the zero-filled values, max and min are the largest and the
\* smallest of them, avg is sum / n and lies between min and max, and min is
\* 0 when a sample lacks the key.
C8_StatisticsOfZeroFilled ==
  Aggregated =>
    LET n == Len(call.data)
    IN /\ AggStats.times = n
       /\ \A key \in DOMAIN AggStats.metrics :
            LET v == ZeroFilled(call.data, key)
                st == AggStats.metrics[key]
            IN /\ st.sum = SumSeq(v)
               /\ \E i \in DOMAIN v : v[i] = st.max
               /\ \A i \in DOMAIN v : v[i] <= st.max
               /\ \E i \in DOMAIN v : v[i] = st.min
               /\ \A i \in DOMAIN v : v[i] >= st.min
               /\ st.avg.den > 0 /\ st.avg.num * n = st.sum * st.avg.den
               /\ st.min * st.avg.den <= st.avg.num
               /\ st.avg.num <= st.max * st.avg.den
               /\ (\E i \in DOMAIN call.data : call.data[i][key] = None)
                    => st.min = 0

\* cpu values [10, 30, 20] give sum 60, avg 20, max 30, min 10, times 3
C8_Witness ==
  /\ Aggregated
  /\ Len(call.data) = 3
  /\ ZeroFilled(call.data, "cpu_insns") = <<10, 30, 20>>
  /\ AggStats.times = 3
  /\ AggStats.metrics["cpu_insns"]
       = [avg |-> [num |-> 20, den |-> 1], max |-> 30, min |-> 10, sum |-> 60]

\* C9: two completed calls recorded in either order give the same
\* statistics: the same functions, times, metric keys, sum, min, max and avg.
C9_RecordOrderIrrelevant ==
  (call.op = "commute" /\ call.done) => call.result_ab = call.result_ba

\* the severity the rule gives value (num/den) against limit: percent is
\* 100 * value / limit, compared strictly with ratio * 100
ExceedsRatio(value, limit, ratio) ==
  value.num * ratio.den * 100 > ratio.num * limit * value.den * 100
SeverityColour(value, limit, cursors) ==
  IF ExceedsRatio(value, limit, cursors.error) THEN "Red"
  ELSE IF ExceedsRatio(value, limit, cursors.danger) THEN "Yellow"
  ELSE "Default"

\* C10: both cell formatters colour a value as Error (red) when its percent
\* of the limit exceeds error * 100, else Danger (yellow) when it exceeds
\* danger * 100, else Normal (default colour); with limit 100 and cursors
\* 0.8 / 1.0 a value up to 80 is Normal, above 80 and up to 100 is Danger,
\* above 100 is Error.
C10_ThresholdClassification ==
  Classified =>
    /\ call.result.fg = SeverityColour(call.value, call.limit, call.cursors)
    /\ (call.limit = 100 /\ call.cursors = DefaultCursors) =>
         call.result.fg =
           IF RatLe(call.value, FromInt(80)) THEN "Default"
           ELSE IF RatLe(call.value, FromInt(100)) THEN "Yellow"
           ELSE "Red"

\* value 80.01 against limit 100 is Danger in the float formatter
C10_Witness ==
  /\ Classified
  /\ call.op = "format_cell_f64"
  /\ call.value = [num |-> 8001, den |-> 100]
  /\ call.limit = 100 /\ call.cursors = DefaultCursors
  /\ call.result.fg = "Yellow"


\* x comes before y in the sequence s
Precedes(s, x, y) ==
  \E i, j \in DOMAIN s : i < j /\ s[i] = x /\ s[j] = y

\* every x of list stands before every y of list
SampleBefore(list, x, y) ==
  \A i, j \in DOMAIN list : (list[i] = x /\ list[j] = y) => i < j

\* C13: when the transactions of two pending calls invoke the same function
\* of the same contract and the first completed before the second, the
\* sample of the first stands before the sample of the second in the list
\* of that function.
C13_CompletionOrder ==
  [][prints' = prints + 1 =>
       \A a, b \in last'.recorded :
         \A c \in ContractKeys, f \in FuncNameSet :
           (/\ Precedes(last'.completion, a, b)
            /\ CallsOf(hash[a].transaction, c, f) > 0
            /\ CallsOf(hash[b].transaction, c, f) > 0
            /\ last'.samples[a] # last'.samples[b])
             => SampleBefore(last'.store[c][f], last'.samples[a],
                             last'.samples[b])]_vars

\* C17: every pending entry pairs the hash of a sent transaction with that
\* transaction and a simulation result of that transaction; a send consumes
\* the staged simulation, and a send with nothing staged adds no entry.
C17_PendingPairsOwnSimulation ==
  [][/\ \A h \in DOMAIN hash' :
          /\ TxHash(hash'[h].transaction) = h
          /\ hash'[h].sim_tx_res \in SessionSims(TxOf(h))
     /\ sent' # sent => (transaction' = None /\ sim_tx_res' = None)
     /\ (sent' # sent /\ (transaction = None \/ sim_tx_res = None))
          => hash' = hash]_vars

\* C18: the table printed for a contract id has entries only for the
\* functions recorded under that contract, and over all tables of one
\* report there is one entry per (contract, function) of the store.
C18_TableOfOwnFunctions ==
  last.result = "Ok" =>
    /\ \A c \in DOMAIN report :
         \A i \in DOMAIN report[c] : report[c][i].func \in DOMAIN last.store[c]
    /\ SumSeq([i \in 1..Len(StrKeyTable) |->
                 IF StrKeyTable[i] \in DOMAIN report
                 THEN Len(report[StrKeyTable[i]]) ELSE 0])
         = Cardinality(stat_pairs(last.store))

\* C19: in a print_table, a pending hash whose wait fails or whose receipt
\* is not a success is never recorded; when no extraction fails, every hash
\* with an extractable receipt is recorded and the report is emitted,
\* whatever was visited before it; and the emitted report leaves no hash
\* pending.
C19_FailedWaitSkipped ==
  [][prints' = prints + 1 =>
       /\ last'.failed \cap last'.recorded = {}
       /\ last'.bad = {} =>
            (last'.result = "Ok" /\ last'.recorded = last'.good)
       /\ \A h \in last'.failed :
            extracted'[h] = IF h \in DOMAIN extracted THEN extracted[h] ELSE 0
       /\ last'.result = "Ok" => hash' = EmptyMap]_vars

\* a wait failed, the loop visited it first and then recorded another call,
\* and the report emptied the pending map
C19_Witness ==
  /\ last.result = "Ok"
  /\ \E a \in last.failed, b \in last.recorded : Precedes(last.order, a, b)
  /\ store_stats = EmptyMap /\ hash = EmptyMap /\ report # EmptyMap


\* some row of the function data fd is the row of key
HasRow(fd, key) == \E r \in DOMAIN fd.rows : fd.rows[r].key = key

\* C11: load_table_data gives one entry per function visited; a key whose
\* limit is 0 has no row in any entry, whatever its statistics are, so no row
\* carries a zero limit; a key with a limit other than 0 has a row in an
\* entry exactly when the statistics of the function have the key.
C11_ZeroLimitNoRow ==
  Loaded =>
    /\ Len(call.result) = Len(call.order)
    /\ \A i \in DOMAIN call.result :
         LET fd == call.result[i]
             st == call.statistics[call.order[i][1]][call.order[i][2]]
         IN /\ fd.func = call.order[i][2]
            /\ \A r \in DOMAIN fd.rows : fd.rows[r].limit # 0
            /\ \A key \in MetricKeySet :
                 /\ (key \in DOMAIN call.limits /\ call.limits[key] = 0)
                      => ~HasRow(fd, key)
                 /\ (key \in DOMAIN call.limits /\ call.limits[key] # 0)
                      => (HasRow(fd, key) <=> key \in DOMAIN st.metrics)

\* cpu_insns has statistics (max 60) and the limit 0: no row for it, next to
\* a row for another key of the same function
C11_Witness ==
  /\ Loaded
  /\ call.limits["cpu_insns"] = 0
  /\ \E i \in DOMAIN call.result :
       LET st == call.statistics[call.order[i][1]][call.order[i][2]]
       IN /\ "cpu_insns" \in DOMAIN st.metrics
          /\ st.metrics["cpu_insns"].max = 60
          /\ ~HasRow(call.result[i], "cpu_insns")
          /\ HasRow(call.result[i], "min_txn_bytes")

\* the rows of all tables of the report
ReportRows ==
  UNION {UNION {{<<c, i, r>> : r \in DOMAIN call.result[c].funcs[i].rows} :
                  i \in DOMAIN call.result[c].funcs} :
           c \in DOMAIN call.result}
ReportRow(x) == call.result[x[1]].funcs[x[2]].rows[x[3]]

\* the row of the statistics from which the report row x was made
StatOfRow(x) ==
  LET stats == calc_statistics(call.store)
      fd == call.result[x[1]].funcs[x[2]]
      c == CHOOSE c \in DOMAIN stats :
             /\ fd.func \in DOMAIN stats[c]
             /\ stats[c][fd.func].times = fd.times
             /\ ReportRow(x).key \in DOMAIN stats[c][fd.func].metrics
             /\ stats[c][fd.func].metrics[ReportRow(x).key].sum
                  = ReportRow(x).sum.content.num
  IN stats[c][fd.func].metrics[ReportRow(x).key]

\* the average, the max and the min cell of every row carry the severity of
\* their own value against the limit of the row and the cursors 0.8 / 1.0
ThreeCellsClassified ==
  \A x \in ReportRows :
    LET row == ReportRow(x)
        st == StatOfRow(x)
    IN /\ row.avg = [content |-> st.avg,
                     fg |-> SeverityColour(st.avg, row.limit, DefaultCursors)]
       /\ row.max = [content |-> FromInt(st.max),
                     fg |-> SeverityColour(FromInt(st.max), row.limit,
                                           DefaultCursors)]
       /\ row.min = [content |-> FromInt(st.min),
                     fg |-> SeverityColour(FromInt(st.min), row.limit,
                                           DefaultCursors)]

\* C12 (as stated): in every row of the report the average, the max, the min
\* and the sum are each classified against the limit of the row and the
\* cursor pair.
C12_FourCellsClassified ==
  Reported =>
    /\ ThreeCellsClassified
    /\ \A x \in ReportRows :
         ReportRow(x).sum.fg
           = SeverityColour(ReportRow(x).sum.content, ReportRow(x).limit,
                            DefaultCursors)

\* C12 (amended): in every row of the report the average, the max and the
\* min are each classified against the limit of the row and the cursor pair;
\* the sum is shown without a classification.
C12_AvgMaxMinClassified ==
  Reported =>
    /\ ThreeCellsClassified
    /\ \A x \in ReportRows : ReportRow(x).sum.fg = "Default"

\* a row whose max is an error, whose average is a danger and whose min is
\* normal, with a sum above the limit shown plain
C12_Witness ==
  /\ Reported
  /\ \E x \in ReportRows :
       /\ ReportRow(x).max.fg = "Red"
       /\ ReportRow(x).avg.fg = "Yellow"
       /\ ReportRow(x).min.fg = "Default"
       /\ ReportRow(x).sum.content.num > ReportRow(x).limit
       /\ ReportRow(x).sum.fg = "Default"

\* the length a change record contributes: the encoded length of the entry
\* of a Created or Updated record that encodes within the limits, else 0
Contribution(change) ==
  IF /\ change.kind \in {"Created", "Updated"}
     /\ change.data.len <= 2 * 1024 * 1024
     /\ change.data.depth <= 200
  THEN change.data.len
  ELSE 0

\* the contributions of all change records of all operations of meta
Contributions(meta) ==
  UNION {{Contribution(meta.operations[i][j]) : j \in DOMAIN meta.operations[i]} :
           i \in DOMAIN meta.operations}

\* C14: entry_bytes is the largest contribution over every change record of
\* every operation of the metadata (the encoded length for Created and
\* Updated records, 0 for the other kinds and for an entry that does not
\* encode): no record contributes more, some record contributes it, and it
\* is 0 without operations or change records.
C14_EntryBytesIsMax ==
  HandledMetaV4 =>
    /\ call.result.ok
    /\ call.result.value.entry_bytes # None
    /\ LET entry_bytes == Unwrap(call.result.value.entry_bytes)
           lens == Contributions(call.meta)
       IN /\ \A len \in lens : entry_bytes >= len
          /\ IF lens = {} THEN entry_bytes = 0 ELSE entry_bytes \in lens

\* two operations: the first holds the largest entry, the second a smaller
\* one next to a longer record that does not count
C14_Witness ==
  /\ HandledMetaV4
  /\ call.meta.operations
       = <<<<Change("Updated", Xdr(128, 2))>>,
           <<Change("Created", Xdr(64, 2)), Change("Removed", Xdr(512, 2))>>>>
  /\ call.result.value.entry_bytes = Some(128)

\* topic i of the event is the string s
TopicIs(te, i, s) ==
  te.topics[i].t \in {"Symbol", "String"} /\ te.topics[i].s = s

\* the event carries the tag, its first topic that is a known key is key,
\* and its payload decodes
Designates(te, key) ==
  /\ \E i \in DOMAIN te.topics : TopicIs(te, i, "core_metrics")
  /\ \E i \in DOMAIN te.topics :
       /\ TopicIs(te, i, key)
       /\ \A j \in 1..(i - 1) :
            \A k \in CORE_KEYS : ~TopicIs(te, j, k)
  /\ scval_as_u64(te.data) # None

\* the payload of the last event of events that designates key, if any
LastDesignated(events, key) ==
  LET idx == {i \in DOMAIN events : Designates(events[i], key)}
  IN IF idx = {} THEN None
     ELSE LET last_i == CHOOSE i \in idx : \A j \in idx : j <= i
          IN scval_as_u64(events[last_i].data)

\* C15: cpu_insns (mem_bytes) is the decoded payload of the last diagnostic
\* event that carries the tag core_metrics among its topics, whose first
\* known key is cpu_insn (mem_byte) and whose payload decodes; it is absent
\* without such an event.
C15_LastDesignatedEvent ==
  HandledMetaV4 =>
    /\ call.result.ok
    /\ call.result.value.cpu_insns
         = LastDesignated(call.meta.diagnostic_events, "cpu_insn")
    /\ call.result.value.mem_bytes
         = LastDesignated(call.meta.diagnostic_events, "mem_byte")

\* two events designate cpu_insn, the first with the tag after the key: the
\* value of the second is kept
C15_Witness ==
  /\ HandledMetaV4
  /\ call.meta.diagnostic_events
       = <<Event(<<Sym("cpu_insn"), Sym("core_metrics")>>, Num("U64", 0, 5)),
           Event(<<Sym("core_metrics"), Sym("cpu_insn")>>, Num("U32", 0, 9))>>
  /\ call.result.value.cpu_insns = Some(9)
  /\ call.result.value.mem_bytes = None

\* a payload that is not an unsigned 64-bit value: a 128-bit value with a
\* high word, a negative signed value, or a value that is not a number
Unrepresentable(v) ==
  \/ v.t \in {"U128", "I128"} /\ v.hi # 0
  \/ v.t \in {"I32", "I64"} /\ v.lo < 0
  \/ v.t \notin {"U32", "I32", "U64", "I64", "U128", "I128"}

\* the sequence s without its element i
Without(s, i) == SubSeq(s, 1, i - 1) \o SubSeq(s, i + 1, Len(s))

\* C16: an event with an unrepresentable payload changes nothing: the
\* extraction still gives a metric, and it is the metric that the metadata
\* without that event gives; a 128-bit payload with a zero high word in the
\* last event that designates a key gives the low word.
C16_UnrepresentableSkipped ==
  HandledMetaV4 =>
    LET events == call.meta.diagnostic_events
    IN /\ call.result.ok
       /\ \A i \in DOMAIN events :
            Unrepresentable(events[i].data) =>
              call.result
                = handle_meta_v4(call.sim_tx, call.tx_result,
                                 [call.meta EXCEPT
                                    !.diagnostic_events = Without(events, i)])
       /\ (/\ events # <<>>
           /\ events[Len(events)].data.t \in {"U128", "I128"}
           /\ events[Len(events)].data.hi = 0
           /\ events[Len(events)].topics = <<Sym("core_metrics"), Sym("cpu_insn")>>)
            => call.result.value.cpu_insns = Some(events[Len(events)].data.lo)

\* a cpu_insn event with a value, then a cpu_insn event with a 128-bit value
\* with a high word: the first value stays, the other fields are there
C16_Witness ==
  /\ HandledMetaV4
  /\ call.meta.diagnostic_events
       = <<Event(<<Sym("core_metrics"), Sym("cpu_insn")>>, Num("U128", 0, 7)),
           Event(<<Sym("core_metrics"), Sym("cpu_insn")>>, Num("I128", 1, 3))>>
  /\ call.result.ok
  /\ call.result.value.cpu_insns = Some(7)
  /\ call.result.value.min_txn_bytes = Some(120)
=============================================================================
